---- MODULE Spec2Model ----
(***************************************************************************)
(* Air-quality dashboard (st.py, with st1.py / st_old.py as the earlier    *)
(* revisions).  Four specifications share the module:                     *)
(*                                                                         *)
(*   SpecC  the PM2.5 classifier get_air_quality_status;                   *)
(*   SpecQ  the loader pipeline of one script run over one snapshot:      *)
(*          range selection, load_data, get_latest_measurement, render;   *)
(*   Spec   the script runs of concurrent sessions: the memoized          *)
(*          download_database writing the snapshot file, the startup      *)
(*          check, the queries that read the file, the refresh button.    *)
(*   Spec1  the script runs of st1.py: download_database memoized for     *)
(*          600 seconds, with a clock.                                     *)
(***************************************************************************)
EXTENDS Integers, Sequences, FiniteSets, TLC

VARIABLES
    \* --- SpecC -----------------------------------------------------------
    pm25_value,        \* argument of get_air_quality_status
    status,            \* its result ("none" before the call)
    \* --- SpecQ -----------------------------------------------------------
    db,                \* rows of table measurements, in rowid order
    qpc,               \* position of the script run in the loader pipeline
    selected_loc_id,   \* sidebar: selected location
    start_str,         \* range start handed to load_data (naive civil time)
    end_str,           \* range end handed to load_data (naive civil time)
    df,                \* result of load_data
    latest_data_dict,  \* result of get_latest_measurement
    shown,             \* what the run rendered
    \* --- Spec ------------------------------------------------------------
    remote,            \* body the URL serves now
    file,              \* the local snapshot file LOCAL_DB
    dlCache,           \* memoized result of download_database
    ldCache,           \* memoized result of load_data
    dlLock,            \* session computing download_database for the cache
    ldLock,            \* session computing load_data for the cache
    epoch,             \* refresh presses so far
    lastFetch,         \* epoch of the latest requests.get
    staleServed,       \* a memoized result older than a press was served
    pc,                \* per session: position of its script run
    runs,              \* per session: script runs started
    button,            \* per session: the refresh button of its page
    ret,               \* per session: where download_database returns to
    resp,              \* per session: r.content
    success,           \* per session: first component of the result
    began,             \* per session: epoch at which its cached call began
    pre,               \* per session: the file when its download call began
    foreign,           \* per session: another session wrote the file since
    db_exists,         \* per session: os.path.exists(LOCAL_DB) at the check
    startup,           \* per session: what the startup check showed
    outcome,           \* per session: how the run ended
    obs,               \* per session: what each query of the run read
    pressedAt,         \* per session: epoch of its latest press
    \* --- Spec1 (st1.py) ----------------------------------------------------
    st1_now,           \* the clock, in seconds
    st1_up,            \* the remote source is reachable
    st1_file,          \* the local snapshot file LOCAL_DB
    st1_cache,         \* memoized result of download_database, with its time
    st1_lock,          \* session computing download_database for the cache
    st1_pc,            \* per session: position of its script run
    st1_success,       \* per session: first component of the result
    st1_hit,           \* per session: the result came from the cache
    st1_attempt,       \* time of the latest requests.get (-1: none yet)
    st1_failed         \* time download_database last returned failure (-1)

classVars == <<pm25_value, status>>
loaderVars == <<db, qpc, selected_loc_id, start_str, end_str, df, latest_data_dict, shown>>
sharedVars == <<remote, file, dlCache, ldCache, dlLock, ldLock, epoch, lastFetch, staleServed>>
runVars == <<pc, runs, button, ret, resp, success, began, pre, foreign, db_exists,
             startup, outcome, obs, pressedAt>>
sessionVars == <<sharedVars, runVars>>
st1Vars == <<st1_now, st1_up, st1_file, st1_cache, st1_lock, st1_pc, st1_success,
             st1_hit, st1_attempt, st1_failed>>

-----------------------------------------------------------------------------
(* Bounds *)

\* PM2.5 readings are modelled in tenths of a microgram per cubic metre.
MinPM == 20
MaxPM == 1600
\* civil hours of one calendar day that timestamps and ranges are drawn from
MaxT == 2
\* rows in table measurements
MaxRows == 2
\* script runs of one session
MaxRuns == 3
\* bodies the remote source publishes: 1..MaxVer
MaxVer == 2

-----------------------------------------------------------------------------
(* get_air_quality_status, st.py 87-100.  Breakpoints in tenths. *)

\* An absent reading (None / NaN) is the empty tuple, a value v is <<v>>.
NaN == <<>>

Bp12 == 120
Bp35_4 == 354
Bp55_4 == 554
Bp150_4 == 1504

PMValues == {NaN} \cup {<<v>> : v \in (0 - MinPM)..MaxPM}

Categories == {"Nema podataka", "Dobra", "Umjerena", "Nezdrava za osjetljive",
               "Nezdrava", "Vrlo nezdrava"}

get_air_quality_status_lt(v) ==
    IF v = NaN THEN "Nema podataka"
    ELSE IF v[1] < Bp12 THEN "Dobra"
    ELSE IF v[1] < Bp35_4 THEN "Umjerena"
    ELSE IF v[1] < Bp55_4 THEN "Nezdrava za osjetljive"
    ELSE IF v[1] < Bp150_4 THEN "Nezdrava"
    ELSE "Vrlo nezdrava"

get_air_quality_status(v) ==
    IF v = NaN THEN "Nema podataka"
    ELSE IF v[1] <= Bp12 THEN "Dobra"
    ELSE IF v[1] <= Bp35_4 THEN "Umjerena"
    ELSE IF v[1] <= Bp55_4 THEN "Nezdrava za osjetljive"
    ELSE IF v[1] <= Bp150_4 THEN "Nezdrava"
    ELSE "Vrlo nezdrava"

-----------------------------------------------------------------------------
(* Stored timestamps.                                                      *)
(* A stored timestamp is a TEXT value.  Well-formed values carry a civil   *)
(* hour c of one calendar day, written with a blank or a 'T' between date  *)
(* and time, and either no zone designator (naive) or an explicit offset;  *)
(* "bad" is text that is no timestamp at all (such as 'N/A').              *)
(* All times lie in one standard-time period: Europe/Zagreb is UTC+1.      *)

ZagrebOffset == 1

Locations == {1, 2}
Times == 0..MaxT
Offsets == {0, ZagrebOffset}

\* SQL NULL is the empty tuple, a value x is <<x>>.
NULL == <<>>

BadTs == [kind |-> "bad", c |-> 0, o |-> 0]
NaiveTs == [kind : {"space", "T"}, c : Times, o : {0}]
AwareTs == [kind : {"off"}, c : Times, o : Offsets]
Timestamps == NaiveTs \cup AwareTs \cup {BadTs}

Rows == [loc : Locations, ts : Timestamps]
DBs == UNION {[1..n -> Rows] : n \in 0..MaxRows}

\* Binary collation of the TEXT values: same date prefix, then the separator
\* (' ' = 0x20 sorts before 'T' = 0x54), then the time digits, then the zone
\* suffix (end of string sorts before '+00:00', which sorts before '+01:00').
\* Text that starts with a letter sorts after every text starting with a digit.
TextKey(ts) ==
    IF ts.kind = "bad" THEN <<1, 0, 0, 0>>
    ELSE <<0, IF ts.kind = "space" THEN 0 ELSE 1, ts.c,
           IF ts.kind = "off" THEN 1 + ts.o ELSE 0>>

LexLess(a, b) ==
    \E i \in 1..4 : a[i] < b[i] /\ \A j \in 1..(i - 1) : a[j] = b[j]

TextLeq(a, b) == TextKey(a) = TextKey(b) \/ LexLess(TextKey(a), TextKey(b))

\* SQLite datetime(X): the value as 'YYYY-MM-DD HH:MM:SS'; an explicit offset is
\* subtracted (the result is UTC), a naive value is kept, anything else is NULL.
SqlDatetime(ts) ==
    IF ts.kind = "bad" THEN NULL
    ELSE IF ts.kind = "off" THEN <<ts.c - ts.o>>
    ELSE <<ts.c>>

\* a naive value taken as UTC (tz_localize('UTC')) instead of Europe/Zagreb
NormalizedNaiveAsUtc(ts) ==
    IF ts.kind = "off" THEN ts.c - ts.o ELSE ts.c

\* pandas after load: an aware value is its instant, a naive one is localized
\* to Europe/Zagreb.  Instants are hours UTC.
Normalized(ts) ==
    IF ts.kind = "off" THEN ts.c - ts.o ELSE ts.c - ZagrebOffset

\* The instant a naive civil range bound denotes.
RangeInstant(c) == c - ZagrebOffset

-----------------------------------------------------------------------------
(* load_data, st.py 63-84 *)

\* BETWEEN taken as "between the two bounds in either order"
SqlBetweenSym(x, lo, hi) ==
    /\ x # NULL
    /\ \/ lo <= x[1] /\ x[1] <= hi
       \/ hi <= x[1] /\ x[1] <= lo

\* x BETWEEN lo AND hi is x >= lo AND x <= hi; NULL is in no range.
SqlBetween(x, lo, hi) == x # NULL /\ lo <= x[1] /\ x[1] <= hi

\* WHERE locationID = ? AND datetime(timestamp) BETWEEN datetime(?) AND datetime(?)
Where(d, i, loc, s, e) ==
    /\ d[i].loc = loc
    /\ SqlBetween(SqlDatetime(d[i].ts), s, e)

Matching(d, loc, s, e) ==
    LET all == [k \in 1..Len(d) |-> k]
        Test(i) == Where(d, i, loc, s, e)
    IN  SelectSeq(all, Test)

\* ORDER BY timestamp: the raw TEXT column, rows of equal text in rowid order.
RECURSIVE Insert(_, _, _)
Insert(d, i, s) ==
    IF s = <<>> THEN <<i>>
    ELSE IF TextLeq(d[Head(s)].ts, d[i].ts)
         THEN <<Head(s)>> \o Insert(d, i, Tail(s))
         ELSE <<i>> \o s

RECURSIVE OrderByTimestamp(_, _)
OrderByTimestamp(d, idxs) ==
    IF idxs = <<>> THEN <<>>
    ELSE Insert(d, idxs[Len(idxs)],
                OrderByTimestamp(d, SubSeq(idxs, 1, Len(idxs) - 1)))

\* pd.to_datetime(df["timestamp"]) followed by .dt.tz / .dt.tz_localize raises
\* when the column does not become one datetime dtype: naive and aware values
\* mixed, or aware values of different offsets.  Whether naive values written
\* with different separators parse together depends on the pandas build
\* (strict: the format inferred from the first value must match the others).
ParseRaises(d, idxs, strict) ==
    LET kinds == {d[idxs[k]].ts.kind : k \in 1..Len(idxs)}
        offs == {d[idxs[k]].ts.o : k \in 1..Len(idxs)}
    IN  \/ "off" \in kinds /\ kinds # {"off"}
        \/ kinds = {"off"} /\ Cardinality(offs) > 1
        \/ "bad" \in kinds
        \/ strict /\ kinds = {"space", "T"}

ErrorFrame == [kind |-> "error", rows |-> <<>>]

load_data(d, loc, s, e, strict) ==
    LET idxs == OrderByTimestamp(d, Matching(d, loc, s, e))
    IN  IF idxs = <<>> THEN [kind |-> "ok", rows |-> <<>>]
        ELSE IF ParseRaises(d, idxs, strict) THEN ErrorFrame
        ELSE [kind |-> "ok",
              rows |-> [k \in 1..Len(idxs) |->
                          [id |-> idxs[k],
                           timestamp |-> Normalized(d[idxs[k]].ts)]]]

-----------------------------------------------------------------------------
(* get_latest_measurement, st.py 45-60 *)

\* Row ids start at 1 (rowid order): id 0 is no row.
None == [id |-> 0, timestamp |-> BadTs]
NoFrame == [kind |-> "none", rows |-> <<>>]

\* ORDER BY x: NULL sorts before every value.
SqlLeq(x, y) == x = NULL \/ (y # NULL /\ x[1] <= y[1])

RowsOf(d, loc) == {i \in 1..Len(d) : d[i].loc = loc}

\* ORDER BY datetime(timestamp) DESC LIMIT 1: a row no other row of the
\* location sorts after.  SQL leaves the order of equal keys unspecified.
LatestCandidates(d, loc) ==
    {i \in RowsOf(d, loc) :
        \A j \in RowsOf(d, loc) :
            SqlLeq(SqlDatetime(d[j].ts), SqlDatetime(d[i].ts))}

get_latest_measurement(d, loc) ==
    IF RowsOf(d, loc) = {} THEN {None}
    ELSE {[id |-> i, timestamp |-> d[i].ts] : i \in LatestCandidates(d, loc)}

-----------------------------------------------------------------------------
(* SpecC: the classifier applied to readings *)

ClassIdle == pm25_value = NaN /\ status = "none"

Classify ==
    /\ status = "none"
    /\ status' = get_air_quality_status(pm25_value)
    /\ UNCHANGED pm25_value

NextReading ==
    /\ status # "none"
    /\ \E v \in PMValues : pm25_value' = v
    /\ status' = "none"

-----------------------------------------------------------------------------
(* SpecQ: the loader pipeline of one script run, st.py 335-396 and 492-494 *)

LoaderIdle ==
    /\ db = <<>>
    /\ qpc = "off"
    /\ selected_loc_id = 0
    /\ start_str = 0
    /\ end_str = 0
    /\ df = NoFrame
    /\ latest_data_dict = None
    /\ shown = [what |-> "none", id |-> 0]

\* st.py 335-386: the sidebar's location and range; the custom date inputs
\* allow an end before the start.
SelectRange ==
    /\ qpc = "sidebar"
    /\ \E loc \in Locations, s \in Times, e \in Times :
          /\ selected_loc_id' = loc
          /\ start_str' = s
          /\ end_str' = e
    /\ qpc' = "load"
    /\ UNCHANGED <<db, df, latest_data_dict, shown>>

\* st.py 389
LoadData ==
    /\ qpc = "load"
    /\ \E strict \in BOOLEAN :
          df' = load_data(db, selected_loc_id, start_str, end_str, strict)
    /\ qpc' = IF df'.kind = "error" THEN "except" ELSE "latest"
    /\ UNCHANGED <<db, selected_loc_id, start_str, end_str, latest_data_dict, shown>>

\* st.py 392
GetLatest ==
    /\ qpc = "latest"
    /\ latest_data_dict' \in get_latest_measurement(db, selected_loc_id)
    /\ qpc' = "render"
    /\ UNCHANGED <<db, selected_loc_id, start_str, end_str, df, shown>>

\* the latest reading shown whenever there is one, whatever the series holds
RenderLatestAlways ==
    IF latest_data_dict = None
    THEN [what |-> "nodata", id |-> 0]
    ELSE IF latest_data_dict.timestamp.kind = "bad"
    THEN [what |-> "error", id |-> 0]
    ELSE [what |-> "latest", id |-> latest_data_dict.id]

\* st.py 394-490: the no-data warning, or the latest reading and the charts.
\* pd.to_datetime(latest['timestamp']) at 399 raises on text that is no timestamp.
RenderResult ==
    IF df.rows = <<>> \/ latest_data_dict = None
    THEN [what |-> "nodata", id |-> 0]
    ELSE IF latest_data_dict.timestamp.kind = "bad"
    THEN [what |-> "error", id |-> 0]
    ELSE [what |-> "latest", id |-> latest_data_dict.id]

Render ==
    /\ qpc = "render"
    /\ shown' = RenderResult
    /\ qpc' = "done"
    /\ UNCHANGED <<db, selected_loc_id, start_str, end_str, df, latest_data_dict>>

\* st.py 492-494: except Exception
Except ==
    /\ qpc = "except"
    /\ shown' = [what |-> "error", id |-> 0]
    /\ qpc' = "done"
    /\ UNCHANGED <<db, selected_loc_id, start_str, end_str, df, latest_data_dict>>

\* the next script run of the session, against the same snapshot: the script's
\* variables are those of a fresh run
Rerun ==
    /\ qpc = "done"
    /\ qpc' = "sidebar"
    /\ selected_loc_id' = 0
    /\ start_str' = 0
    /\ end_str' = 0
    /\ df' = NoFrame
    /\ latest_data_dict' = None
    /\ shown' = [what |-> "none", id |-> 0]
    /\ UNCHANGED db

-----------------------------------------------------------------------------
(* Spec: script runs of concurrent sessions, st.py 13-42 and 286-494.       *)
(* A body is the complete database file the URL serves; body 0 is the       *)
(* database before any location is registered.  The rows of a body are      *)
(* left to SpecQ: here a complete file answers every query.                 *)

Sessions == {1, 2}
Bodies == 0..MaxVer
NoBody == 0 - 1

Absent == [st |-> "absent", body |-> NoBody]
Empty == [st |-> "empty", body |-> NoBody]
Partial(b) == [st |-> "partial", body |-> b]
Full(b) == [st |-> "full", body |-> b]

NoEntry == [val |-> "none", body |-> NoBody, born |-> 0]
Unread == [loc |-> "unread", series |-> "unread", latest |-> "unread"]

DlBody == {"dl_get", "dl_open", "dl_write", "dl_close"}
Writing == {"dl_write", "dl_close"}

St1Idle ==
    /\ st1_now = 0
    /\ st1_up = FALSE
    /\ st1_file = Absent
    /\ st1_cache = [val |-> "none", at |-> 0]
    /\ st1_lock = 0
    /\ st1_pc = [s \in Sessions |-> "off"]
    /\ st1_success = [s \in Sessions |-> "none"]
    /\ st1_hit = [s \in Sessions |-> FALSE]
    /\ st1_attempt = 0 - 1
    /\ st1_failed = 0 - 1

SessionIdle ==
    /\ remote = 0
    /\ file = Absent
    /\ dlCache = NoEntry
    /\ ldCache = NoEntry
    /\ dlLock = 0
    /\ ldLock = 0
    /\ epoch = 0
    /\ lastFetch = 0
    /\ staleServed = FALSE
    /\ pc = [s \in Sessions |-> "off"]
    /\ runs = [s \in Sessions |-> 0]
    /\ button = [s \in Sessions |-> "absent"]
    /\ ret = [s \in Sessions |-> "check"]
    /\ resp = [s \in Sessions |-> NoBody]
    /\ success = [s \in Sessions |-> "none"]
    /\ began = [s \in Sessions |-> 0]
    /\ pre = [s \in Sessions |-> Absent]
    /\ foreign = [s \in Sessions |-> FALSE]
    /\ db_exists = [s \in Sessions |-> "unchecked"]
    /\ startup = [s \in Sessions |-> "none"]
    /\ outcome = [s \in Sessions |-> "none"]
    /\ obs = [s \in Sessions |-> Unread]
    /\ pressedAt = [s \in Sessions |-> 0]

\* The deployment starts with no local file or with a copy of an earlier body.
Init ==
    /\ ClassIdle
    /\ LoaderIdle
    /\ St1Idle
    /\ remote = 1
    /\ file \in {Absent, Full(0)}
    /\ dlCache = NoEntry
    /\ ldCache = NoEntry
    /\ dlLock = 0
    /\ ldLock = 0
    /\ epoch = 0
    /\ lastFetch = 0
    /\ staleServed = FALSE
    /\ pc = [s \in Sessions |-> "idle"]
    /\ runs = [s \in Sessions |-> 0]
    /\ button = [s \in Sessions |-> "absent"]
    /\ ret = [s \in Sessions |-> "check"]
    /\ resp = [s \in Sessions |-> NoBody]
    /\ success = [s \in Sessions |-> "none"]
    /\ began = [s \in Sessions |-> 0]
    /\ pre = [s \in Sessions |-> Absent]
    /\ foreign = [s \in Sessions |-> FALSE]
    /\ db_exists = [s \in Sessions |-> "unchecked"]
    /\ startup = [s \in Sessions |-> "none"]
    /\ outcome = [s \in Sessions |-> "none"]
    /\ obs = [s \in Sessions |-> Unread]
    /\ pressedAt = [s \in Sessions |-> 0]

\* st.cache_data.clear() (st.py 15, 318): every function cache is dropped, and
\* with it the lock of a computation in flight, whose result is then stored
\* in a cache no call looks at any more.
NoClear ==
    UNCHANGED <<dlCache, ldCache, dlLock, ldLock>>

ClearCaches ==
    /\ dlCache' = NoEntry
    /\ ldCache' = NoEntry
    /\ dlLock' = 0
    /\ ldLock' = 0

\* Session 1 is followed over MaxRuns script runs; session 2 is a second
\* visitor whose page is loaded once.
RunBudget(s) == IF s = 1 THEN MaxRuns ELSE 1

\* A script run starts from the top (st.py 13-17): a user interaction, which
\* may be a press of the refresh button the page shows.
StartRun(s, press) ==
    /\ pc[s] = "idle"
    /\ runs[s] + (IF press THEN 2 ELSE 1) <= RunBudget(s)
    /\ press => button[s] = "shown"
    /\ ClearCaches
    /\ epoch' = IF press THEN epoch + 1 ELSE epoch
    /\ pressedAt' = [pressedAt EXCEPT ![s] = IF press THEN epoch + 1 ELSE @]
    /\ button' = [button EXCEPT ![s] = IF press THEN "pressed" ELSE "absent"]
    /\ runs' = [runs EXCEPT ![s] = @ + 1]
    /\ pc' = [pc EXCEPT ![s] = "dl_lookup"]
    /\ ret' = [ret EXCEPT ![s] = "check"]
    /\ success' = [success EXCEPT ![s] = "none"]
    /\ db_exists' = [db_exists EXCEPT ![s] = "unchecked"]
    /\ startup' = [startup EXCEPT ![s] = "none"]
    /\ outcome' = [outcome EXCEPT ![s] = "none"]
    /\ obs' = [obs EXCEPT ![s] = Unread]
    /\ UNCHANGED <<remote, file, lastFetch, staleServed, resp, began, pre, foreign>>

\* @st.cache_data(ttl=60) on download_database (st.py 32), called at 291 and
\* 323: a memoized result is returned without running the function.
DlHit(s) ==
    /\ pc[s] = "dl_lookup"
    /\ dlCache.val # "none"
    /\ success' = [success EXCEPT ![s] = dlCache.val]
    /\ staleServed' = (staleServed \/ dlCache.born < epoch)
    /\ pre' = [pre EXCEPT ![s] = file]
    /\ foreign' = [foreign EXCEPT ![s] = FALSE]
    /\ pc' = [pc EXCEPT ![s] = ret[s]]
    /\ UNCHANGED <<remote, file, dlCache, ldCache, dlLock, ldLock, epoch, lastFetch,
                   runs, button, ret, resp, began, db_exists, startup, outcome,
                   obs, pressedAt>>

\* No memoized result: the caller computes it, one caller at a time.
DlMiss(s) ==
    /\ pc[s] = "dl_lookup"
    /\ dlCache.val = "none"
    /\ dlLock = 0
    /\ dlLock' = s
    /\ began' = [began EXCEPT ![s] = epoch]
    /\ pre' = [pre EXCEPT ![s] = file]
    /\ foreign' = [foreign EXCEPT ![s] = FALSE]
    /\ pc' = [pc EXCEPT ![s] = "dl_get"]
    /\ UNCHANGED <<remote, file, dlCache, ldCache, ldLock, epoch, lastFetch,
                   staleServed, runs, button, ret, resp, success, db_exists,
                   startup, outcome, obs, pressedAt>>

\* download_database returns (st.py 40, 42): the result is memoized unless the
\* caches were cleared since the call began.
DlReturn(s, val) ==
    /\ success' = [success EXCEPT ![s] = val]
    /\ resp' = [resp EXCEPT ![s] = NoBody]
    /\ began' = [began EXCEPT ![s] = 0]
    /\ pc' = [pc EXCEPT ![s] = ret[s]]
    /\ IF dlLock = s
       THEN /\ dlCache' = [val |-> val, body |-> NoBody, born |-> began[s]]
            /\ dlLock' = 0
       ELSE UNCHANGED <<dlCache, dlLock>>

\* Session s changes the file: every other session inside download_database,
\* or just returned from it, has seen a foreign write.
MarkForeign(s) ==
    foreign' = [t \in Sessions |->
                  IF t # s /\ pc[t] \in DlBody \cup {"check", "rerun"}
                  THEN TRUE ELSE foreign[t]]

\* st.py 36-37: requests.get(DB_URL, timeout=10); r.raise_for_status().
\* A request error, a timeout or a non-success status raises.
DlGet(s) ==
    /\ pc[s] = "dl_get"
    /\ lastFetch' = epoch
    /\ \E ok \in BOOLEAN :
          IF ok
          THEN /\ resp' = [resp EXCEPT ![s] = remote]
               /\ pc' = [pc EXCEPT ![s] = "dl_open"]
               /\ UNCHANGED <<success, began, dlCache, dlLock>>
          ELSE DlReturn(s, "fail")
    /\ UNCHANGED <<remote, file, ldCache, ldLock, epoch, staleServed, runs, button,
                   ret, pre, foreign, db_exists, startup, outcome, obs, pressedAt>>

\* st.py 38: open(LOCAL_DB, "wb") creates the file or truncates it in place.
OpenWb(f) == Empty

DlOpen(s) ==
    /\ pc[s] = "dl_open"
    /\ \E ok \in BOOLEAN :
          IF ok
          THEN /\ file' = OpenWb(file)
               /\ MarkForeign(s)
               /\ pc' = [pc EXCEPT ![s] = "dl_write"]
               /\ UNCHANGED <<success, resp, began, dlCache, dlLock>>
          ELSE /\ DlReturn(s, "fail")
               /\ UNCHANGED <<file, foreign>>
    /\ UNCHANGED <<remote, ldCache, ldLock, epoch, lastFetch, staleServed, runs,
                   button, ret, pre, db_exists, startup, outcome, obs, pressedAt>>

\* st.py 39: f.write(r.content).  The bytes reach the file in pieces; an error
\* (a full disk) raises with the file as far as it got.
DlWrite(s) ==
    /\ pc[s] = "dl_write"
    /\ \E o \in {"ok", "fail", "failmid"} :
          /\ file' = IF o = "fail" THEN file ELSE Partial(resp[s])
          /\ IF o = "ok"
             THEN /\ pc' = [pc EXCEPT ![s] = "dl_close"]
                  /\ UNCHANGED <<success, resp, began, dlCache, dlLock>>
             ELSE DlReturn(s, "fail")
          /\ IF o = "fail" THEN UNCHANGED foreign ELSE MarkForeign(s)
    /\ UNCHANGED <<remote, ldCache, ldLock, epoch, lastFetch, staleServed, runs,
                   button, ret, pre, db_exists, startup, outcome, obs, pressedAt>>

\* st.py 38-40: the with block ends, the file is complete; return True.  When
\* another session wrote the file meanwhile the bytes of two bodies may be mixed.
DlClose(s) ==
    /\ pc[s] = "dl_close"
    /\ file' \in (IF foreign[s] THEN {Partial(resp[s]), Full(resp[s])}
                  ELSE {Full(resp[s])})
    /\ MarkForeign(s)
    /\ DlReturn(s, "ok")
    /\ UNCHANGED <<remote, ldCache, ldLock, epoch, lastFetch, staleServed, runs,
                   button, ret, pre, db_exists, startup, outcome, obs, pressedAt>>

\* st.py 292-297: not success and no file: st.error and st.stop(); not success
\* and a file: st.warning, go on.
StartupOutcomeNoStop(ok, exists) ==
    IF ok THEN "ok" ELSE "warning"

StartupOutcome(ok, exists) ==
    IF ok THEN "ok"
    ELSE IF exists THEN "warning"
    ELSE "fatal"

StartupCheck(s) ==
    /\ pc[s] = "check"
    /\ LET exists == file.st # "absent"
           shows == StartupOutcome(success[s] = "ok", exists)
       IN  /\ db_exists' = [db_exists EXCEPT ![s] =
                              IF success[s] = "ok" THEN "unchecked"
                              ELSE IF exists THEN "yes" ELSE "no"]
           /\ startup' = [startup EXCEPT ![s] = shows]
           /\ pc' = [pc EXCEPT ![s] = IF shows = "fatal" THEN "idle" ELSE "loc"]
           /\ outcome' = [outcome EXCEPT ![s] = IF shows = "fatal" THEN "stopped" ELSE @]
           /\ pre' = [pre EXCEPT ![s] = IF shows = "fatal" THEN Absent ELSE @]
    /\ foreign' = [foreign EXCEPT ![s] = FALSE]
    /\ UNCHANGED <<sharedVars, runs, button, ret, resp, success, began, obs, pressedAt>>

\* What a query reads: the file as it is.  A file that is not complete, read
\* while another session is between open and close, is a torn read.
Observe(s) ==
    IF file.st = "full" THEN "full"
    ELSE IF \E t \in Sessions \ {s} : pc[t] \in Writing THEN "torn"
    ELSE file.st

\* st.py 301-307: SELECT * FROM locations; no locations: st.warning, st.stop().
\* A file that is no database raises into the handler at 492.
LocQuery(s) ==
    /\ pc[s] = "loc"
    /\ obs' = [obs EXCEPT ![s].loc = Observe(s)]
    /\ IF file.st # "full"
       THEN pc' = [pc EXCEPT ![s] = "except"] /\ UNCHANGED outcome
       ELSE IF file.body = 0
       THEN /\ pc' = [pc EXCEPT ![s] = "idle"]
            /\ outcome' = [outcome EXCEPT ![s] = "nolocs"]
       ELSE pc' = [pc EXCEPT ![s] = "button"] /\ UNCHANGED outcome
    /\ pre' = [pre EXCEPT ![s] = Absent]
    /\ UNCHANGED <<sharedVars, runs, button, ret, resp, success, began, foreign,
                   db_exists, startup, pressedAt>>

\* st.py 317-329, button pressed: clear the caches, download, st.rerun().
RefreshPressed(s) ==
    /\ pc[s] = "button"
    /\ button[s] = "pressed"
    /\ ClearCaches
    /\ pc' = [pc EXCEPT ![s] = "dl_lookup"]
    /\ ret' = [ret EXCEPT ![s] = "rerun"]
    /\ UNCHANGED <<remote, file, epoch, lastFetch, staleServed, runs, button, resp,
                   success, began, pre, foreign, db_exists, startup, outcome, obs,
                   pressedAt>>

\* st.py 317, button not pressed: it is shown, the run goes on to 331-386.
ButtonShown(s) ==
    /\ pc[s] = "button"
    /\ button[s] # "pressed"
    /\ button' = [button EXCEPT ![s] = "shown"]
    /\ pc' = [pc EXCEPT ![s] = "load"]
    /\ UNCHANGED <<sharedVars, runs, ret, resp, success, began, pre, foreign,
                   db_exists, startup, outcome, obs, pressedAt>>

\* st.py 329: st.rerun() ends the run and starts the next one from the top.
StRerun(s) ==
    /\ pc[s] = "rerun"
    /\ ClearCaches
    /\ button' = [button EXCEPT ![s] = "absent"]
    /\ runs' = [runs EXCEPT ![s] = @ + 1]
    /\ pc' = [pc EXCEPT ![s] = "dl_lookup"]
    /\ ret' = [ret EXCEPT ![s] = "check"]
    /\ success' = [success EXCEPT ![s] = "none"]
    /\ db_exists' = [db_exists EXCEPT ![s] = "unchecked"]
    /\ startup' = [startup EXCEPT ![s] = "none"]
    /\ outcome' = [outcome EXCEPT ![s] = "none"]
    /\ obs' = [obs EXCEPT ![s] = Unread]
    /\ pre' = [pre EXCEPT ![s] = Absent]
    /\ foreign' = [foreign EXCEPT ![s] = FALSE]
    /\ UNCHANGED <<remote, file, epoch, lastFetch, staleServed, resp, began, pressedAt>>

\* @st.cache_data(ttl=60) on load_data (st.py 62), called at 389.  The sessions
\* look at the same location and range: one key.
LdHit(s) ==
    /\ pc[s] = "load"
    /\ ldCache.val # "none"
    /\ staleServed' = (staleServed \/ ldCache.born < epoch)
    /\ obs' = [obs EXCEPT ![s].series = "full"]
    /\ pc' = [pc EXCEPT ![s] = "latest"]
    /\ UNCHANGED <<remote, file, dlCache, ldCache, dlLock, ldLock, epoch, lastFetch,
                   runs, button, ret, resp, success, began, pre, foreign, db_exists,
                   startup, outcome, pressedAt>>

LdMiss(s) ==
    /\ pc[s] = "load"
    /\ ldCache.val = "none"
    /\ ldLock = 0
    /\ ldLock' = s
    /\ began' = [began EXCEPT ![s] = epoch]
    /\ pc' = [pc EXCEPT ![s] = "ld_sql"]
    /\ UNCHANGED <<remote, file, dlCache, ldCache, dlLock, epoch, lastFetch,
                   staleServed, runs, button, ret, resp, success, pre, foreign,
                   db_exists, startup, outcome, obs, pressedAt>>

\* st.py 63-84: the body of load_data reads the file; its frame is memoized
\* unless the caches were cleared since the call began; an exception is not.
LdSql(s) ==
    /\ pc[s] = "ld_sql"
    /\ obs' = [obs EXCEPT ![s].series = Observe(s)]
    /\ pc' = [pc EXCEPT ![s] = IF file.st = "full" THEN "latest" ELSE "except"]
    /\ IF ldLock = s
       THEN /\ ldLock' = 0
            /\ ldCache' = IF file.st = "full"
                          THEN [val |-> "frame", body |-> file.body, born |-> began[s]]
                          ELSE ldCache
       ELSE UNCHANGED <<ldCache, ldLock>>
    /\ began' = [began EXCEPT ![s] = 0]
    /\ UNCHANGED <<remote, file, dlCache, dlLock, epoch, lastFetch, staleServed,
                   runs, button, ret, resp, success, pre, foreign, db_exists,
                   startup, outcome, pressedAt>>

\* st.py 392 and 45-60: get_latest_measurement reads the file, unmemoized.
Latest(s) ==
    /\ pc[s] = "latest"
    /\ obs' = [obs EXCEPT ![s].latest = Observe(s)]
    /\ pc' = [pc EXCEPT ![s] = IF file.st = "full" THEN "render" ELSE "except"]
    /\ UNCHANGED <<sharedVars, runs, button, ret, resp, success, began, pre, foreign,
                   db_exists, startup, outcome, pressedAt>>

\* st.py 394-490
RenderPage(s) ==
    /\ pc[s] = "render"
    /\ outcome' = [outcome EXCEPT ![s] = "rendered"]
    /\ pc' = [pc EXCEPT ![s] = "idle"]
    /\ UNCHANGED <<sharedVars, runs, button, ret, resp, success, began, pre, foreign,
                   db_exists, startup, obs, pressedAt>>

\* a handler that does not catch the error: the run ends with nothing shown
ExceptNotCaught(s) ==
    /\ pc[s] = "except"
    /\ outcome' = [outcome EXCEPT ![s] = "uncaught"]
    /\ pc' = [pc EXCEPT ![s] = "idle"]
    /\ UNCHANGED <<sharedVars, runs, button, ret, resp, success, began, pre, foreign,
                   db_exists, startup, obs, pressedAt>>

\* st.py 492-494: except Exception: st.error, st.exception
ExceptHandler(s) ==
    /\ pc[s] = "except"
    /\ outcome' = [outcome EXCEPT ![s] = "error"]
    /\ pc' = [pc EXCEPT ![s] = "idle"]
    /\ UNCHANGED <<sharedVars, runs, button, ret, resp, success, began, pre, foreign,
                   db_exists, startup, obs, pressedAt>>

\* ttl=60 (st.py 32, 62): a memoized result expires.
TtlExpire ==
    /\ \E c \in {"dl", "ld"} :
          /\ (IF c = "dl" THEN dlCache ELSE ldCache).val # "none"
          /\ dlCache' = IF c = "dl" THEN NoEntry ELSE dlCache
          /\ ldCache' = IF c = "ld" THEN NoEntry ELSE ldCache
    /\ UNCHANGED <<remote, file, dlLock, ldLock, epoch, lastFetch, staleServed, runVars>>

\* The ingestion process publishes the next body at the URL.
RemoteUpdate ==
    /\ remote < MaxVer
    /\ remote' = remote + 1
    /\ UNCHANGED <<file, dlCache, ldCache, dlLock, ldLock, epoch, lastFetch,
                   staleServed, runVars>>

Others == UNCHANGED <<classVars, loaderVars, st1Vars>>

Next ==
    \/ \E s \in Sessions, press \in BOOLEAN : StartRun(s, press) /\ Others
    \/ \E s \in Sessions : DlHit(s) /\ Others
    \/ \E s \in Sessions : DlMiss(s) /\ Others
    \/ \E s \in Sessions : DlGet(s) /\ Others
    \/ \E s \in Sessions : DlOpen(s) /\ Others
    \/ \E s \in Sessions : DlWrite(s) /\ Others
    \/ \E s \in Sessions : DlClose(s) /\ Others
    \/ \E s \in Sessions : StartupCheck(s) /\ Others
    \/ \E s \in Sessions : LocQuery(s) /\ Others
    \/ \E s \in Sessions : RefreshPressed(s) /\ Others
    \/ \E s \in Sessions : ButtonShown(s) /\ Others
    \/ \E s \in Sessions : StRerun(s) /\ Others
    \/ \E s \in Sessions : LdHit(s) /\ Others
    \/ \E s \in Sessions : LdMiss(s) /\ Others
    \/ \E s \in Sessions : LdSql(s) /\ Others
    \/ \E s \in Sessions : Latest(s) /\ Others
    \/ \E s \in Sessions : RenderPage(s) /\ Others
    \/ \E s \in Sessions : ExceptHandler(s) /\ Others
    \/ TtlExpire /\ Others
    \/ RemoteUpdate /\ Others

InitC ==
    /\ pm25_value \in PMValues
    /\ status = "none"
    /\ LoaderIdle
    /\ SessionIdle
    /\ St1Idle

NextC ==
    \/ Classify /\ UNCHANGED <<loaderVars, sessionVars, st1Vars>>
    \/ NextReading /\ UNCHANGED <<loaderVars, sessionVars, st1Vars>>

InitQ ==
    /\ ClassIdle
    /\ SessionIdle
    /\ St1Idle
    /\ db \in DBs
    /\ qpc = "sidebar"
    /\ selected_loc_id = 0
    /\ start_str = 0
    /\ end_str = 0
    /\ df = NoFrame
    /\ latest_data_dict = None
    /\ shown = [what |-> "none", id |-> 0]

NextQ ==
    \/ SelectRange /\ UNCHANGED <<classVars, sessionVars, st1Vars>>
    \/ LoadData /\ UNCHANGED <<classVars, sessionVars, st1Vars>>
    \/ GetLatest /\ UNCHANGED <<classVars, sessionVars, st1Vars>>
    \/ Render /\ UNCHANGED <<classVars, sessionVars, st1Vars>>
    \/ Except /\ UNCHANGED <<classVars, sessionVars, st1Vars>>
    \/ Rerun /\ UNCHANGED <<classVars, sessionVars, st1Vars>>

vars == <<classVars, loaderVars, sessionVars, st1Vars>>

Spec == Init /\ [][Next]_vars
SpecC == InitC /\ [][NextC]_vars
SpecQ == InitQ /\ [][NextQ]_vars

-----------------------------------------------------------------------------
(* Spec1: the script runs of st1.py, lines 21-32 and 69-90.  st1.py clears  *)
(* no cache and has no refresh button: a memoized result of                 *)
(* download_database lives for its time-to-live.                            *)

\* st1.py 22: @st.cache_data(ttl=600)
Ttl600 == 600
\* the clock advances in steps of TickSeconds, up to MaxNow
TickSeconds == 300
MaxNow == 1500

\* an entry that memoizes successes only
St1LiveSuccessOnly(e) ==
    e.val = "ok" /\ st1_now < e.at + Ttl600

\* An entry, a success or a failure alike, is served until its time-to-live
\* has passed.
St1Live(e) ==
    e.val # "none" /\ st1_now < e.at + Ttl600

St1Others == UNCHANGED <<classVars, loaderVars, sessionVars>>

\* st1.py 1-70: a script run starts from the top.
St1Start(s) ==
    /\ st1_pc[s] = "idle"
    /\ st1_pc' = [st1_pc EXCEPT ![s] = "lookup"]
    /\ st1_success' = [st1_success EXCEPT ![s] = "none"]
    /\ st1_hit' = [st1_hit EXCEPT ![s] = FALSE]
    /\ UNCHANGED <<st1_now, st1_up, st1_file, st1_cache, st1_lock, st1_attempt,
                   st1_failed>>

\* st1.py 22, 73: the memoized result is returned, the function does not run.
St1Hit(s) ==
    /\ st1_pc[s] = "lookup"
    /\ St1Live(st1_cache)
    /\ st1_success' = [st1_success EXCEPT ![s] = st1_cache.val]
    /\ st1_hit' = [st1_hit EXCEPT ![s] = TRUE]
    /\ st1_pc' = [st1_pc EXCEPT ![s] = "check"]
    /\ UNCHANGED <<st1_now, st1_up, st1_file, st1_cache, st1_lock, st1_attempt,
                   st1_failed>>

\* No live entry: the caller computes the result, one caller at a time.
St1Miss(s) ==
    /\ st1_pc[s] = "lookup"
    /\ ~St1Live(st1_cache)
    /\ st1_lock = 0
    /\ st1_lock' = s
    /\ st1_pc' = [st1_pc EXCEPT ![s] = "get"]
    /\ UNCHANGED <<st1_now, st1_up, st1_file, st1_cache, st1_success, st1_hit,
                   st1_attempt, st1_failed>>

\* st1.py 30, 32: download_database returns; the result is memoized.
St1Return(s, val) ==
    /\ st1_cache' = [val |-> val, at |-> st1_now]
    /\ st1_lock' = 0
    /\ st1_success' = [st1_success EXCEPT ![s] = val]
    /\ st1_failed' = IF val = "fail" THEN st1_now ELSE st1_failed
    /\ st1_pc' = [st1_pc EXCEPT ![s] = "check"]

\* st1.py 26-27: requests.get(DB_URL, timeout=10); r.raise_for_status().
St1Get(s) ==
    /\ st1_pc[s] = "get"
    /\ st1_attempt' = st1_now
    /\ \E ok \in (IF st1_up THEN BOOLEAN ELSE {FALSE}) :
          IF ok
          THEN /\ st1_pc' = [st1_pc EXCEPT ![s] = "write"]
               /\ UNCHANGED <<st1_cache, st1_lock, st1_success, st1_failed>>
          ELSE St1Return(s, "fail")
    /\ UNCHANGED <<st1_now, st1_up, st1_file, st1_hit>>

\* st1.py 28-30: open(LOCAL_DB, "wb") and f.write(r.content); open may raise
\* with the file as it was, write may raise with the file truncated.
St1Write(s) ==
    /\ st1_pc[s] = "write"
    /\ \E o \in {"ok", "open_fails", "write_fails"} :
          /\ st1_file' = IF o = "ok" THEN Full(1)
                         ELSE IF o = "open_fails" THEN st1_file
                         ELSE OpenWb(st1_file)
          /\ St1Return(s, IF o = "ok" THEN "ok" ELSE "fail")
    /\ UNCHANGED <<st1_now, st1_up, st1_hit, st1_attempt>>

\* st1.py 74-80: the startup check.
St1Check(s) ==
    /\ st1_pc[s] = "check"
    /\ st1_pc' = [st1_pc EXCEPT ![s] =
                    IF StartupOutcome(st1_success[s] = "ok", st1_file.st # "absent")
                         = "fatal"
                    THEN "idle" ELSE "page"]
    /\ UNCHANGED <<st1_now, st1_up, st1_file, st1_cache, st1_lock, st1_success,
                   st1_hit, st1_attempt, st1_failed>>

\* st1.py 82-266: the rest of the page; the run ends.
St1Page(s) ==
    /\ st1_pc[s] = "page"
    /\ st1_pc' = [st1_pc EXCEPT ![s] = "idle"]
    /\ UNCHANGED <<st1_now, st1_up, st1_file, st1_cache, st1_lock, st1_success,
                   st1_hit, st1_attempt, st1_failed>>

\* Time passes.
St1Tick ==
    /\ st1_now + TickSeconds <= MaxNow
    /\ st1_now' = st1_now + TickSeconds
    /\ UNCHANGED <<st1_up, st1_file, st1_cache, st1_lock, st1_pc, st1_success,
                   st1_hit, st1_attempt, st1_failed>>

\* The remote source becomes reachable or unreachable.
St1Reach ==
    /\ st1_up' = ~st1_up
    /\ UNCHANGED <<st1_now, st1_file, st1_cache, st1_lock, st1_pc, st1_success,
                   st1_hit, st1_attempt, st1_failed>>

Init1 ==
    /\ ClassIdle
    /\ LoaderIdle
    /\ SessionIdle
    /\ st1_now = 0
    /\ st1_up \in BOOLEAN
    /\ st1_file \in {Absent, Full(0)}
    /\ st1_cache = [val |-> "none", at |-> 0]
    /\ st1_lock = 0
    /\ st1_pc = [s \in Sessions |-> "idle"]
    /\ st1_success = [s \in Sessions |-> "none"]
    /\ st1_hit = [s \in Sessions |-> FALSE]
    /\ st1_attempt = 0 - 1
    /\ st1_failed = 0 - 1

Next1 ==
    \/ \E s \in Sessions : St1Start(s) /\ St1Others
    \/ \E s \in Sessions : St1Hit(s) /\ St1Others
    \/ \E s \in Sessions : St1Miss(s) /\ St1Others
    \/ \E s \in Sessions : St1Get(s) /\ St1Others
    \/ \E s \in Sessions : St1Write(s) /\ St1Others
    \/ \E s \in Sessions : St1Check(s) /\ St1Others
    \/ \E s \in Sessions : St1Page(s) /\ St1Others
    \/ St1Tick /\ St1Others
    \/ St1Reach /\ St1Others

Spec1 == Init1 /\ [][Next1]_vars

-----------------------------------------------------------------------------
(* Claims about the loader and the classifier *)

FrameIds(f) == {f.rows[k].id : k \in 1..Len(f.rows)}

WellFormedRowsOf(d, loc) == {i \in RowsOf(d, loc) : d[i].ts.kind # "bad"}

\* the rows of the location whose normalized instant lies in the range
InRangeIds(d, loc, s, e) ==
    {i \in WellFormedRowsOf(d, loc) :
        /\ RangeInstant(s) <= Normalized(d[i].ts)
        /\ Normalized(d[i].ts) <= RangeInstant(e)}

\* the rows of the location with the maximum normalized instant
MaxInstantIds(d, loc) ==
    {i \in WellFormedRowsOf(d, loc) :
        \A j \in WellFormedRowsOf(d, loc) :
            Normalized(d[j].ts) <= Normalized(d[i].ts)}

\* C5: for a range with start <= end, the frame load_data returns holds exactly
\* the rows of the location whose normalized instant t satisfies
\* rangeStart <= t <= rangeEnd.
C5_LoadDataExactRange ==
    (df.kind = "ok" /\ start_str <= end_str) =>
        FrameIds(df) = InRangeIds(db, selected_loc_id, start_str, end_str)

\* C6: the rows load_data returns are in ascending order of normalized instant.
C6_LoadDataSortedByInstant ==
    df.kind = "ok" =>
        \A k \in 1..(Len(df.rows) - 1) :
            df.rows[k].timestamp <= df.rows[k + 1].timestamp

\* C7: the latest reading a finished run presents is a measurement of maximum
\* timestamp among all measurements of the location, whatever range was
\* selected; none is presented only if the location has no measurements.
C7_LatestPresentedIsMax ==
    (qpc = "done" /\ shown.what # "error" /\ start_str <= end_str) =>
        /\ RowsOf(db, selected_loc_id) = {} => shown.what = "nodata"
        /\ WellFormedRowsOf(db, selected_loc_id) # {} =>
              /\ shown.what = "latest"
              /\ shown.id \in MaxInstantIds(db, selected_loc_id)

\* C9: get_air_quality_status is total, with inclusive upper breakpoints
\* (values in tenths): absent -> Unknown, v <= 12 -> Good, 12 < v <= 35.4 ->
\* Moderate, 35.4 < v <= 55.4 -> Unhealthy for sensitive groups,
\* 55.4 < v <= 150.4 -> Unhealthy, v > 150.4 -> Very unhealthy.
C9_ClassifierBands ==
    status # "none" =>
        /\ status \in Categories
        /\ (pm25_value = NaN) <=> (status = "Nema podataka")
        /\ pm25_value # NaN =>
              /\ (pm25_value[1] <= 120) <=> (status = "Dobra")
              /\ (120 < pm25_value[1] /\ pm25_value[1] <= 354)
                    <=> (status = "Umjerena")
              /\ (354 < pm25_value[1] /\ pm25_value[1] <= 554)
                    <=> (status = "Nezdrava za osjetljive")
              /\ (554 < pm25_value[1] /\ pm25_value[1] <= 1504)
                    <=> (status = "Nezdrava")
              /\ (1504 < pm25_value[1]) <=> (status = "Vrlo nezdrava")

\* 35.4 is classified, and lands in the band it closes
C9_Witness == pm25_value = <<354>> /\ status = "Umjerena"

\* C10: a row whose timestamp is no timestamp is in neither the frame load_data
\* returns nor the result of get_latest_measurement.
C10_MalformedRowExcluded ==
    /\ df.kind = "ok" => \A i \in FrameIds(df) : db[i].ts.kind # "bad"
    /\ latest_data_dict # None => latest_data_dict.timestamp.kind # "bad"

-----------------------------------------------------------------------------
(* Claims about the fetch, the startup check and the refresh *)

\* C1: a query that reads the snapshot file while a fetch of another session
\* is writing it observes a complete body, never an empty or partial file.
C1_ReadsNeverTorn ==
    \A s \in Sessions :
        /\ obs[s].loc # "torn"
        /\ obs[s].series # "torn"
        /\ obs[s].latest # "torn"

\* C2: when download_database has returned failure, and no other session wrote
\* the file during the call, the file is what it was when the call began.
C2_FailedFetchLeavesFile ==
    \A s \in Sessions :
        (pc[s] \in {"check", "rerun"} /\ success[s] = "fail" /\ ~foreign[s])
            => file = pre[s]

C4_StaleSnapshotServes ==
    [][\A s \in Sessions :
          (/\ pc[s] = "loc"
           /\ pc'[s] # "loc"
           /\ startup[s] = "warning"
           /\ pre[s].st = "full")
              => (pc'[s] # "except" /\ obs'[s].loc = "full")]_vars

\* C8: no memoized result computed before a press of the refresh button is
\* served after it, and a session that pressed executes a query only after a
\* fetch attempt made after its press.
C8_RefreshInvalidates ==
    /\ ~staleServed
    /\ \A s \in Sessions :
          (pressedAt[s] > 0 /\ obs[s].loc # "unread") => lastFetch >= pressedAt[s]

\* the run that follows a press has executed its queries and rendered
C8_Witness ==
    \E s \in Sessions :
        /\ pressedAt[s] > 0
        /\ button[s] = "shown"
        /\ outcome[s] = "rendered"
        /\ obs[s].series = "full"

-----------------------------------------------------------------------------
(* Claims about the loader, continued *)

\* C11: load_data called with a range whose start is after its end returns an
\* empty frame and raises no error.
C11_EmptyOnReversedRange ==
    (qpc \in {"latest", "render", "done", "except"} /\ start_str > end_str) =>
        /\ qpc # "except"
        /\ df = [kind |-> "ok", rows |-> <<>>]

\* load_data has returned for a reversed range with a measurement of the
\* location stored between its two bounds
C11_Witness ==
    /\ qpc = "latest"
    /\ start_str > end_str
    /\ df.kind = "ok"
    /\ \E i \in RowsOf(db, selected_loc_id) :
          SqlBetween(SqlDatetime(db[i].ts), end_str, start_str)

\* The text under which a measurement taken at UTC instant u is stored: ISO 8601
\* with the explicit offset o, or, without a zone designator, the civil time of
\* Europe/Zagreb (the convention st.py 80 states for the dataset).
Instants == (0 - ZagrebOffset)..MaxT

StoredAs(u, kind, o) ==
    IF kind = "off"
    THEN [kind |-> "off", c |-> u + o, o |-> o]
    ELSE [kind |-> kind, c |-> u + ZagrebOffset, o |-> 0]

-----------------------------------------------------------------------------
(* Claims about the script run, continued *)

\* a query of the session's current run raised: it read a file that is no
\* complete database
Raised(s) ==
    \E q \in {"loc", "series", "latest"} : obs[s][q] \notin {"unread", "full"}

\* C13: a run in which the locations query, load_data or
\* get_latest_measurement raised goes to the handler and ends with the error
\* shown, the session idle for its next interaction; it runs no later step.
C13_ErrorsCaughtAndShown ==
    \A s \in Sessions :
        Raised(s) =>
            \/ pc[s] = "except"
            \/ pc[s] = "idle" /\ outcome[s] = "error"

\* load_data raised in a run whose locations query had succeeded, and the run
\* has ended with the error shown
C13_Witness ==
    \E s \in Sessions :
        /\ obs[s].loc = "full"
        /\ obs[s].series \notin {"unread", "full"}
        /\ pc[s] = "idle"
        /\ outcome[s] = "error"

\* C14: only a successful download_database changes the local file, and it
\* replaces the content by the response body: whenever no download is between
\* its open and its return, the file is as the deployment started (absent or
\* a complete body) or is exactly a body the source served.
C14_OnlySuccessfulDownloadWrites ==
    (\A s \in Sessions : pc[s] \notin Writing) =>
        \/ file = Absent
        \/ \E b \in Bodies : file = Full(b)

-----------------------------------------------------------------------------
(* Claims about the loader's comparisons *)

\* C15: two measurements of the location, one stored without zone offset and
\* one with an explicit offset, that denote the same instant are treated
\* identically: a returned frame holds both or neither, and when one is
\* returned as the latest reading the other is not ranked below it.
C15_SameInstantSameTreatment ==
    \A i, j \in WellFormedRowsOf(db, selected_loc_id) :
        (/\ db[i].ts.kind # "off"
         /\ db[j].ts.kind = "off"
         /\ Normalized(db[i].ts) = Normalized(db[j].ts)) =>
            /\ df.kind = "ok" => (i \in FrameIds(df) <=> j \in FrameIds(df))
            /\ latest_data_dict.id \in {i, j} =>
                  {i, j} \subseteq LatestCandidates(db, selected_loc_id)

\* C16: get_latest_measurement is deterministic on the snapshot content: the
\* measurement a call returns is the only one a call on this content can
\* return, also when several measurements share the maximum timestamp.
C16_LatestDeterministic ==
    [][(qpc = "latest" /\ qpc' = "render") =>
          get_latest_measurement(db, selected_loc_id) = {latest_data_dict'}]_vars

\* C17: a run in which load_data returned an empty frame shows the no-data
\* warning and no latest reading, also when get_latest_measurement returned a
\* measurement of the location.
C17_NoLatestWithoutSeries ==
    (qpc = "done" /\ df.kind = "ok" /\ df.rows = <<>>) =>
        shown = [what |-> "nodata", id |-> 0]

\* a run has ended with the warning although get_latest_measurement returned
\* a well-formed measurement
C17_Witness ==
    /\ qpc = "done"
    /\ df.kind = "ok"
    /\ df.rows = <<>>
    /\ latest_data_dict # None
    /\ latest_data_dict.timestamp.kind # "bad"
    /\ shown.what = "nodata"

-----------------------------------------------------------------------------
(* Claims about st1.py *)

\* C18: once download_database of st1.py has returned failure, for 600 seconds
\* every script run that calls it receives failure from the cache, no
\* requests.get is made and the file stays as it is, also while the remote
\* source is reachable; a fetch attempt is made only when the 600 seconds
\* have passed.
C18_FailureMemoized ==
    [][(st1_failed >= 0 /\ st1_now < st1_failed + Ttl600) =>
          /\ st1_attempt' = st1_attempt
          /\ st1_file' = st1_file
          /\ \A s \in Sessions :
                (st1_pc[s] = "lookup" /\ st1_pc'[s] # "lookup") =>
                    /\ st1_pc'[s] = "check"
                    /\ st1_hit'[s]
                    /\ st1_success'[s] = "fail"]_vars

\* a run has received the memoized failure while the source is reachable, at
\* a later time than the failed attempt
C18_Witness ==
    \E s \in Sessions :
        /\ st1_pc[s] = "check"
        /\ st1_hit[s]
        /\ st1_success[s] = "fail"
        /\ st1_up
        /\ st1_now > st1_failed
        /\ st1_attempt <= st1_failed

\* after the 600 seconds a new fetch attempt has been made
C18_WitnessExpiry ==
    /\ st1_failed >= 0
    /\ st1_attempt >= st1_failed + Ttl600

====
